---- MODULE Spec2Model ----
(***************************************************************************)
(* go-junit-report: the streaming parser of parser/parser.go.              *)
(*                                                                         *)
(* Parse reads `go test` output one line at a time and builds a Report of  *)
(* Packages and Tests; a passing test's buffered log is handed to          *)
(* processCreateDestroySections, which extracts timed create / destroy     *)
(* phases.  Each branch of Parse's line loop is one action; the phase      *)
(* analyzer is a step function (one loop iteration per step) that the      *)
(* status-line action runs to completion.                                  *)
(*                                                                         *)
(* Lines are their literal text.  The regular expressions of the source    *)
(* are modelled by the table AllLines, which records for every line of the *)
(* input vocabulary what the patterns capture from it.                     *)
(***************************************************************************)
EXTENDS Integers, Sequences, FiniteSets, TLC

VARIABLES
    family,          \* which input vocabulary this run draws its lines from
    lines,           \* history: the lines read so far, in order
    pc,              \* "reading", "scanning" (inside processCreateDestroySections),
                     \* "done" (Parse returned a report), "error"
    report,          \* report.Packages
    tests,           \* tests of the current package (the *Test values)
    testsTime,       \* sum of the tests' time
    cur,             \* current test name
    seenSummary,
    coveragePct,
    packageCaptures, \* package name -> captured build output
    capturedPackage,
    buffer,          \* non-test output
    isCreate,
    calls,           \* history: every processCreateDestroySections call
    ret,             \* what Parse returned
    scan             \* the analyzer's locals while pc = "scanning"

vars == <<family, lines, pc, report, tests, testsTime, cur, seenSummary,
          coveragePct, packageCaptures, capturedPackage, buffer, isCreate,
          calls, ret, scan>>

----------------------------------------------------------------------------
(* Bounds of the model *)

\* lines read per run in the "tests" and "build" vocabularies
MaxLines == 4

\* log lines of the test in the "phase" vocabulary, the destroy-start marker
\* not counted
MaxText == 5

\* the same in the "scan" vocabulary
MaxScan == 4

----------------------------------------------------------------------------
(* Result and ACTION constants *)

PASS == "PASS"
FAIL == "FAIL"
SKIP == "SKIP"

UNKNOWN == "UNKNOWN"
CREATE  == "CREATE"
UPDATE  == "UPDATE"
DESTROY == "DESTROY"

\* time.Second in the unit phase durations are kept in.  The source keeps
\* them in nanoseconds (10^9 per second); the model keeps milliseconds so
\* that sums stay inside TLC's integers.  Log timestamps have one-second
\* resolution, so no duration is rounded by this.
Second == 1000

\* the pkgName argument of Parse
pkgName == "fallback"

----------------------------------------------------------------------------
(* The input vocabulary.  A line is its text (raw) with what the source's   *)
(* patterns capture from it: kind tells which patterns match, name / word / *)
(* num / note / cov are the capture groups.                                 *)

L(raw, kind, name, word, num, note, cov) ==
    [raw |-> raw, kind |-> kind, name |-> name, word |-> word, num |-> num,
     note |-> note, cov |-> cov]

RunA     == L("=== RUN A", "run", "A", "", 0, "", "")
RunB     == L("=== RUN B", "run", "B", "", 0, "", "")
PassA    == L("--- PASS: A (1.00s)", "status", "A", "PASS", 1, "", "")
PassB    == L("--- PASS: B (2.00s)", "status", "B", "PASS", 2, "", "")
FailA    == L("--- FAIL: A (2.00s)", "status", "A", "FAIL", 2, "", "")
SkipB    == L("--- SKIP: B (1.00s)", "status", "B", "SKIP", 1, "", "")
OkP      == L("ok p 3.00s", "result", "p", "ok", 3, "", "")
FailP    == L("FAIL p 4.00s", "result", "p", "FAIL", 4, "", "")
OkQCov   == L("ok q 3.00s coverage: 9.0% of statements", "result", "q", "ok", 3, "", "9.0")
FailPBld == L("FAIL p [build failed]", "result", "p", "FAIL", 0, "[build failed]", "")
FailQBld == L("FAIL q [build failed]", "result", "q", "FAIL", 0, "[build failed]", "")
Cover    == L("coverage: 7.0% of statements", "coverage", "", "", 0, "", "7.0")
Cover8   == L("coverage: 8.0% of statements", "coverage", "", "", 0, "", "8.0")
Out1     == L("\tfile.go:1: msg", "output", "file.go:1: msg", "", 0, "", "")
HashP    == L("# p", "hash", "p", "", 0, "", "")
HashQ    == L("# q", "hash", "q", "", 0, "", "")
Summary  == L("PASS", "summary", "", "PASS", 0, "", "")
Text1    == L("some text", "text", "", "", 0, "", "")
Text2    == L("more text", "text", "", "", 0, "", "")
DStart   == L("2017/01/01 10:00:00 [WARN] Test: Executing destroy step", "destroyStart", "", "", 0, "", "")
Diff     == L("2017/01/01 10:00:00 [WARN] Test: Step plan: DIFF:", "diff", "", "", 0, "", "")
ActA     == L("CREATE: a", "action", "a", "CREATE", 0, "", "")
ActB     == L("UPDATE: b", "action", "b", "UPDATE", 0, "", "")
Apply1   == L("2017/01/01 10:00:01 [INFO] terraform: building graph: GraphTypeApply", "apply", "", "", 1, "", "")
Apply5   == L("2017/01/01 10:00:05 [INFO] terraform: building graph: GraphTypeApply", "apply", "", "", 5, "", "")
Plan3    == L("2017/01/01 10:00:03 [INFO] terraform: building graph: GraphTypePlan", "plan", "", "", 3, "", "")
PlanD4   == L("2017/01/01 10:00:04 [INFO] terraform: building graph: GraphTypePlanDestroy", "planDestroy", "", "", 4, "", "")

TestsLines == {RunA, RunB, PassA, PassB, FailA, SkipB, OkP, Out1, Text1, Summary, DStart}
BuildLines == {HashP, HashQ, Text1, Text2, FailPBld, FailQBld, FailP, OkQCov, Cover, RunA,
               RunB, Out1}
LogLines   == {DStart, Diff, ActA, ActB, Apply1, Plan3, PlanD4}
PhaseLines == {RunA, PassA} \cup LogLines
ClockLines == {RunA, PassA, DStart, Diff, Apply5, Plan3, PlanD4}
ScanLines  == {RunA, PassA, DStart, Diff, Apply1, Plan3, PlanD4}
CoverLines == {Cover, Cover8, OkP, OkQCov, FailPBld, RunA, Text1}

AllLines == TestsLines \cup BuildLines \cup PhaseLines \cup ClockLines \cup CoverLines

PkgNames == {l.name : l \in {m \in AllLines : m.kind \in {"hash", "result"}}}

\* what the patterns see in a line of text
LineTable == [r \in {l.raw : l \in AllLines} |-> CHOOSE l \in AllLines : l.raw = r]

LineOf(raw) == LineTable[raw]

----------------------------------------------------------------------------
(* Line classifier: the patterns of the source *)

HasPrefixRun(l)   == l.kind = "run"
regexResult(l)    == l.kind = "result"
regexStatus(l)    == l.kind = "status"
regexCoverage(l)  == l.kind = "coverage"
\* unanchored: any line holding a hard tab
regexOutput(l)    == l.kind = "output"
HasPrefixHash(l)  == l.kind = "hash"
regexSummary(l)   == l.kind = "summary"

regexDestroyStart(raw)            == LineOf(raw).kind = "destroyStart"
regexIsDiff(raw)                  == LineOf(raw).kind = "diff"
regexIsCreateUpdateOrDestroy(raw) == LineOf(raw).kind = "action"
regexIsGraphTypeApply(raw)        == LineOf(raw).kind = "apply"
\* no end anchor: "...GraphTypePlanDestroy" matches "...GraphTypePlan" too
regexIsGraphTypePlan(raw)         == LineOf(raw).kind \in {"plan", "planDestroy"}
regexIsGraphTypeDestroy(raw)      == LineOf(raw).kind = "planDestroy"

\* time.Parse(time.RFC3339, convertToRFC3339(line)): the instant, in seconds
convertToRFC3339(raw) == LineOf(raw).num

\* strconv.ParseFloat of a captured duration; "" (no capture) gives 0
parseTime(l) == l.num

----------------------------------------------------------------------------
(* Small helpers *)

RECURSIVE SumSeq(_)
SumSeq(s) == IF s = <<>> THEN 0 ELSE Head(s) + SumSeq(Tail(s))

ReplaceAt(s, k, v) == [s EXCEPT ![k] = v]

----------------------------------------------------------------------------
(* Test and ResourceTime values *)

NoResourceTime == [ResourceName |-> "", Duration |-> 0, Action |-> <<>>]

\* mutant: the Test is created with no outcome
NewTest_Unset(name) ==
    [Name |-> name, Result |-> "", Time |-> 0, TestOverhead |-> 0,
     CreateTime |-> 0, CreateDestroyTime |-> 0, Output |-> <<>>,
     CreateText |-> <<>>, DestroyText |-> <<>>, Steps |-> <<>>,
     CleanUp |-> <<>>]

\* the Test a "=== RUN" line creates
NewTest(name) ==
    [Name |-> name, Result |-> FAIL, Time |-> 0, TestOverhead |-> 0,
     CreateTime |-> 0, CreateDestroyTime |-> 0, Output |-> <<>>,
     CreateText |-> <<>>, DestroyText |-> <<>>, Steps |-> <<>>,
     CleanUp |-> <<>>]

\* the dummy Test a package-result line injects
DummyTest(name, output) ==
    [NewTest(name) EXCEPT !.Output = output]

\* mutant: the list is searched from its first test
findTest_First(ts, name) ==
    LET hits == {k \in 1..Len(ts) : ts[k].Name = name}
    IN  IF hits = {} THEN 0 ELSE CHOOSE k \in hits : \A j \in hits : k <= j

\* index of the last test named name, 0 for nil
findTest(ts, name) ==
    LET hits == {k \in 1..Len(ts) : ts[k].Name = name}
    IN  IF hits = {} THEN 0 ELSE CHOOSE k \in hits : \A j \in hits : j <= k

clearCreateDestroyText(t) ==
    [t EXCEPT !.CreateText = <<>>, !.DestroyText = <<>>]

actionFromString(verb) ==
    IF verb = "CREATE" THEN CREATE
    ELSE IF verb = "UPDATE" THEN UPDATE
    ELSE IF verb = "DESTROY" THEN DESTROY
    ELSE UNKNOWN

\* mutant: the action is appended without looking for it in the list
addAction_NoDedup(actions, verb) == Append(actions, actionFromString(verb))

addAction(actions, verb) ==
    LET newAction == actionFromString(verb)
    IN  IF Len(actions) = 0 THEN <<newAction>>
        ELSE IF \E k \in 1..Len(actions) : actions[k] = newAction THEN actions
        ELSE Append(actions, newAction)

\* fmt.Sprintf("%s, %s", name, id), or id alone for the first resource
joinName(name, id) == IF name = "" THEN id ELSE name \o ", " \o id

----------------------------------------------------------------------------
(* processCreateDestroySections as a step function.  An analyzer state a   *)
(* holds the test being annotated and the locals of the function; indexes  *)
(* are the source's 0-based indexes.  One step is one iteration of the     *)
(* loop the control point a.pc is in:                                      *)
(*   createOuter / destroyOuter   for txtIndex, text := range ...          *)
(*   createInner / destroyInner   for i := txtIndex; i < len; i++          *)
(*   createFind  / destroyFind    for x := i; x < len; x++                 *)

AnalyzerStart(test) ==
    [pc |-> "createOuter", test |-> test, txtIndex |-> 0, i |-> 0, x |-> 0,
     linesProcessed |-> 0, rt |-> NoResourceTime, totalTestTime |-> 0,
     startTime |-> 0]

\* no analysis is running
NoScan == [AnalyzerStart(NewTest("")) EXCEPT !.pc = "idle"]

InCreate(a) == a.pc \in {"createOuter", "createInner", "createFind"}

ScanText(a) == IF InCreate(a) THEN a.test.CreateText ELSE a.test.DestroyText

\* leaving the range loop: the create scan is followed by the destroy scan
\* (var drt ResourceTime; linesProcessed = 0), the destroy scan by the return
LeaveOuter(a) ==
    IF InCreate(a)
    THEN [a EXCEPT !.pc = "destroyOuter", !.txtIndex = 0, !.linesProcessed = 0,
                   !.rt = NoResourceTime]
    ELSE [a EXCEPT !.pc = "done"]

OuterStep(a) ==
    LET text == ScanText(a)
    IN  IF a.txtIndex >= Len(text) THEN LeaveOuter(a)
        ELSE IF a.linesProcessed = Len(text) - 1 THEN LeaveOuter(a)
        ELSE IF regexIsDiff(text[a.txtIndex + 1])
        THEN [a EXCEPT !.pc = IF InCreate(a) THEN "createInner" ELSE "destroyInner",
                       !.i = a.txtIndex]
        ELSE [a EXCEPT !.txtIndex = a.txtIndex + 1]

InnerStep(a) ==
    LET text == ScanText(a)
        line == text[a.i + 1]
    IN  IF a.i >= Len(text)
        THEN [a EXCEPT !.pc = IF InCreate(a) THEN "createOuter" ELSE "destroyOuter",
                       !.txtIndex = a.txtIndex + 1]
        ELSE IF regexIsCreateUpdateOrDestroy(line)
        THEN [a EXCEPT !.linesProcessed = a.i,
                       !.rt.Action = addAction(a.rt.Action, LineOf(line).word),
                       !.rt.ResourceName = joinName(a.rt.ResourceName, LineOf(line).name),
                       !.i = a.i + 1]
        ELSE IF regexIsGraphTypeApply(line)
        THEN [a EXCEPT !.linesProcessed = a.i,
                       !.startTime = convertToRFC3339(line),
                       !.pc = IF InCreate(a) THEN "createFind" ELSE "destroyFind",
                       !.x = a.i]
        ELSE [a EXCEPT !.linesProcessed = a.i, !.i = a.i + 1]

\* mutant: the inner scan resumes after the diff line, not after the end
\* marker
CloseCreate_Restart(a, endTime) ==
    LET done  == [a.rt EXCEPT !.Duration = (endTime - a.startTime) * Second]
        total == a.totalTestTime + done.Duration
    IN  [a EXCEPT !.test.Steps = Append(a.test.Steps, done),
                  !.test.CreateTime = total,
                  !.totalTestTime = total,
                  !.rt = NoResourceTime,
                  !.pc = "createInner",
                  !.i = a.txtIndex + 1]

\* the end marker of a create phase was found at index x
CloseCreate(a, endTime) ==
    LET done  == [a.rt EXCEPT !.Duration = (endTime - a.startTime) * Second]
        total == a.totalTestTime + done.Duration
    IN  [a EXCEPT !.test.Steps = Append(a.test.Steps, done),
                  !.test.CreateTime = total,
                  !.totalTestTime = total,
                  !.rt = NoResourceTime,
                  !.pc = "createInner",
                  !.i = a.x + 1]

\* the end marker of a destroy phase was found at index x; drt keeps its
\* name and actions, and its duration is overwritten by the next phase
CloseDestroy(a, endTime) ==
    LET done  == [a.rt EXCEPT !.Duration = (endTime - a.startTime) * Second]
        total == a.totalTestTime + done.Duration
    IN  [a EXCEPT !.test.CleanUp = Append(a.test.CleanUp, done),
                  !.test.TestOverhead = (a.test.Time * Second) - total,
                  !.test.CreateDestroyTime = total,
                  !.totalTestTime = total,
                  !.rt = done,
                  !.pc = "destroyInner",
                  !.i = a.x + 1]

FindStep(a) ==
    LET text == ScanText(a)
        line == text[a.x + 1]
    IN  IF a.x >= Len(text)
        THEN [a EXCEPT !.pc = IF InCreate(a) THEN "createInner" ELSE "destroyInner",
                       !.i = a.i + 1]
        ELSE IF InCreate(a) /\ regexIsGraphTypePlan(line)
        THEN CloseCreate(a, convertToRFC3339(line))
        ELSE IF ~InCreate(a) /\ regexIsGraphTypeDestroy(line)
        THEN CloseDestroy(a, convertToRFC3339(line))
        ELSE [a EXCEPT !.x = a.x + 1]

ScanStep(a) ==
    IF a.pc \in {"createOuter", "destroyOuter"} THEN OuterStep(a)
    ELSE IF a.pc \in {"createInner", "destroyInner"} THEN InnerStep(a)
    ELSE FindStep(a)

RECURSIVE RunScan(_)
RunScan(a) == IF a.pc = "done" THEN a ELSE RunScan(ScanStep(a))

processCreateDestroySections(test) == RunScan(AnalyzerStart(test)).test

----------------------------------------------------------------------------
(* Parse: the locals of the line loop as one record, and one operator per  *)
(* branch of the loop's if / else-if chain.  skipCheck is set only inside  *)
(* a branch of the chain and read only by later branches of the same       *)
(* chain, so no branch ever sees it true; it is left out.                  *)

State ==
    [report |-> report, tests |-> tests, testsTime |-> testsTime, cur |-> cur,
     seenSummary |-> seenSummary, coveragePct |-> coveragePct,
     packageCaptures |-> packageCaptures, capturedPackage |-> capturedPackage,
     buffer |-> buffer, isCreate |-> isCreate, calls |-> calls]

Package(name, time, ts, cov) ==
    [Name |-> name, Time |-> time, Tests |-> ts, CoveragePct |-> cov]

\* strings.HasSuffix(matches[4], "failed]"): the fourth group is empty or
\* "[<word> failed]"
HasSuffixFailed(note) == note # ""

\* append(make([]string, len(buffer), cap(buffer)), buffer...)
CopyOfBuffer(buf) == [k \in 1..Len(buf) |-> ""] \o buf

\* "=== RUN <name>"
OnRun(s, l) ==
    [s EXCEPT !.cur = l.name,
              !.tests = Append(s.tests, NewTest(l.name)),
              !.capturedPackage = "",
              !.isCreate = TRUE,
              !.seenSummary = FALSE]

\* mutant: a build failure is reported only for a package without tests
ResultTests_OnlyWithoutTests(s, l) ==
    IF HasSuffixFailed(l.note) /\ Len(s.tests) = 0
    THEN Append(s.tests, DummyTest(l.note, s.packageCaptures[l.name]))
    ELSE IF l.word = "FAIL" /\ Len(s.tests) = 0 /\ Len(s.buffer) > 0
    THEN Append(s.tests, DummyTest("Failure", CopyOfBuffer(s.buffer)))
    ELSE s.tests

\* the tests of the package a result line closes
ResultTests(s, l) ==
    IF HasSuffixFailed(l.note)
    THEN Append(s.tests, DummyTest(l.note, s.packageCaptures[l.name]))
    ELSE IF l.word = "FAIL" /\ Len(s.tests) = 0 /\ Len(s.buffer) > 0
    THEN Append(s.tests, DummyTest("Failure", CopyOfBuffer(s.buffer)))
    ELSE s.tests

\* mutant: the test list is not reset when the package is finalized
OnResult_KeepsTests(s, l) ==
    LET cov == IF l.cov # "" THEN l.cov ELSE s.coveragePct
    IN  [s EXCEPT !.report = Append(s.report,
                       Package(l.name, parseTime(l), ResultTests(s, l), cov)),
                  !.buffer = <<>>,
                  !.coveragePct = "",
                  !.cur = "",
                  !.testsTime = 0]

\* mutant: the summary flag is per-package state, reset with the rest
OnResult_ResetsSummary(s, l) ==
    LET cov == IF l.cov # "" THEN l.cov ELSE s.coveragePct
    IN  [s EXCEPT !.report = Append(s.report,
                       Package(l.name, parseTime(l), ResultTests(s, l), cov)),
                  !.buffer = <<>>,
                  !.tests = <<>>,
                  !.coveragePct = "",
                  !.cur = "",
                  !.testsTime = 0,
                  !.seenSummary = FALSE]

\* mutant: the coverage report is kept for the next package
OnResult_KeepsCoverage(s, l) ==
    LET cov == IF l.cov # "" THEN l.cov ELSE s.coveragePct
    IN  [s EXCEPT !.report = Append(s.report,
                       Package(l.name, parseTime(l), ResultTests(s, l), cov)),
                  !.buffer = <<>>,
                  !.tests = <<>>,
                  !.cur = "",
                  !.testsTime = 0]

\* "ok|FAIL <package> ..."
OnResult(s, l) ==
    LET cov == IF l.cov # "" THEN l.cov ELSE s.coveragePct
    IN  [s EXCEPT !.report = Append(s.report,
                       Package(l.name, parseTime(l), ResultTests(s, l), cov)),
                  !.buffer = <<>>,
                  !.tests = <<>>,
                  !.coveragePct = "",
                  !.cur = "",
                  !.testsTime = 0]

\* mutant: the buffer is put in front of the test's output
StatusTest_BufferFirst(t, l, buf) ==
    LET t1 == IF l.word = "PASS" THEN [t EXCEPT !.Result = PASS]
              ELSE IF l.word = "SKIP"
              THEN clearCreateDestroyText([t EXCEPT !.Result = SKIP])
              ELSE clearCreateDestroyText([t EXCEPT !.Result = FAIL])
    IN  [t1 EXCEPT !.Output = buf \o t1.Output,
                   !.Name = l.name,
                   !.Time = parseTime(l)]

\* the test a status line resolved to, before phase analysis
StatusTest(t, l, buf) ==
    LET t1 == IF l.word = "PASS" THEN [t EXCEPT !.Result = PASS]
              ELSE IF l.word = "SKIP"
              THEN clearCreateDestroyText([t EXCEPT !.Result = SKIP])
              ELSE clearCreateDestroyText([t EXCEPT !.Result = FAIL])
    IN  [t1 EXCEPT !.Output = t1.Output \o buf,
                   !.Name = l.name,
                   !.Time = parseTime(l)]

\* mutant: the time of a status line that resolves to no test is summed too
OnStatus_SumsUnresolved(s, l) ==
    LET k  == findTest(s.tests, l.name)
        t2 == StatusTest(s.tests[k], l, s.buffer)
        t3 == IF t2.Result = PASS THEN processCreateDestroySections(t2) ELSE t2
    IN  IF k = 0 THEN [s EXCEPT !.cur = l.name,
                                !.testsTime = s.testsTime + parseTime(l)]
        ELSE [s EXCEPT !.cur = l.name,
                       !.tests = ReplaceAt(s.tests, k, t3),
                       !.buffer = <<>>,
                       !.testsTime = s.testsTime + parseTime(l),
                       !.calls = IF t2.Result = PASS
                                 THEN Append(s.calls, [before |-> t2, after |-> t3])
                                 ELSE s.calls]

\* "--- PASS|FAIL|SKIP: <name> (<d>s)"
OnStatus(s, l) ==
    LET k  == findTest(s.tests, l.name)
        t2 == StatusTest(s.tests[k], l, s.buffer)
        t3 == IF t2.Result = PASS THEN processCreateDestroySections(t2) ELSE t2
    IN  IF k = 0 THEN [s EXCEPT !.cur = l.name]
        ELSE [s EXCEPT !.cur = l.name,
                       !.tests = ReplaceAt(s.tests, k, t3),
                       !.buffer = <<>>,
                       !.testsTime = s.testsTime + parseTime(l),
                       !.calls = IF t2.Result = PASS
                                 THEN Append(s.calls, [before |-> t2, after |-> t3])
                                 ELSE s.calls]

\* "coverage: <pct>% of statements"
OnCoverage(s, l) == [s EXCEPT !.coveragePct = l.cov]

\* a line holding a tab, outside build capture
OnOutput(s, l) ==
    LET k == findTest(s.tests, s.cur)
    IN  IF k = 0 THEN s
        ELSE [s EXCEPT !.tests[k].Output = Append(s.tests[k].Output, l.name)]

\* "# <package>"
OnBuildStart(s, l) == [s EXCEPT !.capturedPackage = l.name]

\* mutant: the captured line is put in front of the earlier ones
OnBuildCapture_Prepend(s, l) ==
    [s EXCEPT !.packageCaptures[s.capturedPackage] =
                  <<l.raw>> \o s.packageCaptures[s.capturedPackage]]

\* any other line while a package's build output is captured
OnBuildCapture(s, l) ==
    [s EXCEPT !.packageCaptures[s.capturedPackage] =
                  Append(s.packageCaptures[s.capturedPackage], l.raw)]

\* "PASS", "FAIL" or "SKIP" alone
OnSummary(s, l) == [s EXCEPT !.seenSummary = TRUE]

\* an unrecognized line before the summary
OnUnrecognized(s, l) == [s EXCEPT !.buffer = Append(s.buffer, l.raw)]

\* the end of every iteration: the line goes to the current test's create
\* or destroy text
SplitSections(s, l) ==
    LET k == findTest(s.tests, s.cur)
    IN  IF k = 0 THEN s
        ELSE IF regexDestroyStart(l.raw)
        THEN [s EXCEPT !.isCreate = FALSE,
                       !.tests[k].DestroyText = Append(s.tests[k].DestroyText, l.raw)]
        ELSE IF s.isCreate
        THEN [s EXCEPT !.tests[k].CreateText = Append(s.tests[k].CreateText, l.raw)]
        ELSE [s EXCEPT !.tests[k].DestroyText = Append(s.tests[k].DestroyText, l.raw)]

\* which branch of the chain a line takes
Branch(s, l) ==
    IF HasPrefixRun(l) THEN "run"
    ELSE IF regexResult(l) THEN "result"
    ELSE IF regexStatus(l) THEN "status"
    ELSE IF regexCoverage(l) THEN "coverage"
    ELSE IF s.capturedPackage = "" /\ regexOutput(l) THEN "output"
    ELSE IF HasPrefixHash(l) THEN "buildStart"
    ELSE IF s.capturedPackage # "" THEN "buildCapture"
    ELSE IF regexSummary(l) THEN "summary"
    ELSE IF ~s.seenSummary THEN "unrecognized"
    ELSE "none"

----------------------------------------------------------------------------
(* Input families.  Every run reads lines of one vocabulary:               *)
(*   tests  test starts, status lines, a package result, output            *)
(*   build  build capture, build failures, coverage, package results       *)
(*   phase  one test: "=== RUN A", a provisioning log of up to MaxText     *)
(*          lines with at most one destroy-start marker among them (the    *)
(*          action lines after it all name resource a), "--- PASS: A",     *)
(*          end of input                                                   *)
(*   clock  as phase, with a log whose phase-start marker is stamped later *)
(*          than its phase-end markers                                     *)
(*   scan   as phase, with a log of up to MaxScan lines and no action      *)
(*          lines; the analysis is followed one loop iteration at a time   *)
(*   cover  coverage reports of two values, package results with and       *)
(*          without a coverage part                                        *)

Vocabulary ==
    IF family = "tests" THEN TestsLines
    ELSE IF family = "build" THEN BuildLines
    ELSE IF family = "clock" THEN ClockLines
    ELSE IF family = "scan" THEN ScanLines
    ELSE IF family = "cover" THEN CoverLines
    ELSE PhaseLines

LastIsStatus == lines # <<>> /\ LineOf(lines[Len(lines)]).kind = "status"

DestroyStartsRead == Cardinality({k \in 1..Len(lines) : lines[k] = DStart.raw})

\* whether the input may continue with line l
CanRead(l) ==
    IF family \in {"tests", "build", "cover"} THEN Len(lines) < MaxLines
    ELSE IF lines = <<>> THEN l.kind = "run"
    ELSE /\ l.kind # "run"
         /\ ~LastIsStatus
         /\ l \in {DStart, ActB} => DestroyStartsRead = 0
         /\ l.kind \notin {"status", "destroyStart"} =>
                Len(lines) - 1 - DestroyStartsRead <
                    (IF family = "scan" THEN MaxScan ELSE MaxText)

\* whether the input may end here
CanEnd == family \in {"phase", "clock", "scan"} => LastIsStatus

----------------------------------------------------------------------------
(* The state machine *)

NoReturn == [returned |-> FALSE, isNil |-> TRUE, Packages |-> <<>>, err |-> "nil"]

InitParse(f) ==
    /\ family = f
    /\ lines = <<>>
    /\ pc = "reading"
    /\ report = <<>>
    /\ tests = <<>>
    /\ testsTime = 0
    /\ cur = ""
    /\ seenSummary = FALSE
    /\ coveragePct = ""
    /\ packageCaptures = [p \in PkgNames |-> <<>>]
    /\ capturedPackage = ""
    /\ buffer = <<>>
    /\ isCreate = FALSE
    /\ calls = <<>>
    /\ ret = NoReturn
    /\ scan = NoScan

Init      == InitParse("tests")
InitBuild == InitParse("build")
InitPhase == InitParse("phase")
InitClock == InitParse("clock")
InitScan  == InitParse("scan")
InitCover == InitParse("cover")

\* the locals of the loop become s
Locals(s) ==
    /\ report' = s.report
    /\ tests' = s.tests
    /\ testsTime' = s.testsTime
    /\ cur' = s.cur
    /\ seenSummary' = s.seenSummary
    /\ coveragePct' = s.coveragePct
    /\ packageCaptures' = s.packageCaptures
    /\ capturedPackage' = s.capturedPackage
    /\ buffer' = s.buffer
    /\ isCreate' = s.isCreate
    /\ calls' = s.calls

\* one iteration of the loop took line l and left the locals as s
Iteration(l, s) ==
    /\ lines' = Append(lines, l.raw)
    /\ Locals(s)
    /\ UNCHANGED <<family, pc, ret, scan>>

Takes(l, branch) ==
    pc = "reading" /\ CanRead(l) /\ Branch(State, l) = branch

ReadRun ==
    \E l \in Vocabulary :
        /\ Takes(l, "run")
        /\ \E s \in {SplitSections(OnRun(State, l), l)} : Iteration(l, s)

ReadResult ==
    \E l \in Vocabulary :
        /\ Takes(l, "result")
        /\ \E s \in {SplitSections(OnResult(State, l), l)} : Iteration(l, s)

ReadStatus ==
    \E l \in Vocabulary :
        /\ Takes(l, "status")
        /\ \E s \in {SplitSections(OnStatus(State, l), l)} : Iteration(l, s)

ReadCoverage ==
    \E l \in Vocabulary :
        /\ Takes(l, "coverage")
        /\ \E s \in {SplitSections(OnCoverage(State, l), l)} : Iteration(l, s)

ReadOutput ==
    \E l \in Vocabulary :
        /\ Takes(l, "output")
        /\ \E s \in {SplitSections(OnOutput(State, l), l)} : Iteration(l, s)

ReadBuildStart ==
    \E l \in Vocabulary :
        /\ Takes(l, "buildStart")
        /\ \E s \in {SplitSections(OnBuildStart(State, l), l)} : Iteration(l, s)

ReadBuildCapture ==
    \E l \in Vocabulary :
        /\ Takes(l, "buildCapture")
        /\ \E s \in {SplitSections(OnBuildCapture(State, l), l)} : Iteration(l, s)

ReadSummary ==
    \E l \in Vocabulary :
        /\ Takes(l, "summary")
        /\ \E s \in {SplitSections(OnSummary(State, l), l)} : Iteration(l, s)

ReadUnrecognized ==
    \E l \in Vocabulary :
        /\ Takes(l, "unrecognized")
        /\ \E s \in {SplitSections(OnUnrecognized(State, l), l)} : Iteration(l, s)

\* a line no branch takes (unrecognized, after the summary)
ReadDiscarded ==
    \E l \in Vocabulary :
        /\ Takes(l, "none")
        /\ \E s \in {SplitSections(State, l)} : Iteration(l, s)

\* what Parse returns at io.EOF
ReturnAtEOF(s) ==
    [returned |-> TRUE, isNil |-> FALSE,
     Packages |-> Append(s.report, Package(pkgName, s.testsTime, s.tests, s.coveragePct)),
     err |-> "nil"]

\* mutant: the packages read so far are returned with the error
ReturnAtError_Partial(s) ==
    [returned |-> TRUE, isNil |-> FALSE, Packages |-> s.report, err |-> "read error"]

\* what Parse returns when ReadLine fails with another error
ReturnAtError(s) ==
    [returned |-> TRUE, isNil |-> TRUE, Packages |-> <<>>, err |-> "read error"]

ReadEOF ==
    /\ pc = "reading"
    /\ CanEnd
    /\ pc' = "done"
    /\ ret' = ReturnAtEOF(State)
    /\ report' = ret'.Packages
    /\ UNCHANGED <<family, lines, tests, testsTime, cur, seenSummary, coveragePct,
                   packageCaptures, capturedPackage, buffer, isCreate, calls, scan>>

ReadError ==
    /\ pc = "reading"
    /\ pc' = "error"
    /\ ret' = ReturnAtError(State)
    /\ UNCHANGED <<family, lines, report, tests, testsTime, cur, seenSummary,
                   coveragePct, packageCaptures, capturedPackage, buffer,
                   isCreate, calls, scan>>

(* The status branch with the analysis unfolded: StatusBegin is the branch *)
(* up to the call of processCreateDestroySections (the test is updated in  *)
(* place, the buffer flushed), ScanOne one iteration of one of its loops,  *)
(* StatusEnd the return and the rest of the iteration.                     *)

StatusBegin ==
    \E l \in Vocabulary :
        /\ Takes(l, "status")
        /\ findTest(tests, l.name) # 0
        /\ l.word = "PASS"
        /\ LET k  == findTest(tests, l.name)
               t2 == StatusTest(tests[k], l, buffer)
           IN  /\ scan' = AnalyzerStart(t2)
               /\ tests' = ReplaceAt(tests, k, t2)
        /\ cur' = l.name
        /\ buffer' = <<>>
        /\ lines' = Append(lines, l.raw)
        /\ pc' = "scanning"
        /\ UNCHANGED <<family, report, testsTime, seenSummary, coveragePct,
                       packageCaptures, capturedPackage, isCreate, calls, ret>>

ScanOne ==
    /\ pc = "scanning"
    /\ scan.pc # "done"
    /\ scan' = ScanStep(scan)
    /\ UNCHANGED <<family, lines, pc, report, tests, testsTime, cur, seenSummary,
                   coveragePct, packageCaptures, capturedPackage, buffer,
                   isCreate, calls, ret>>

StatusEnd ==
    /\ pc = "scanning"
    /\ scan.pc = "done"
    /\ LET l == LineOf(lines[Len(lines)])
           k == findTest(tests, cur)
           s == [State EXCEPT
                    !.tests = ReplaceAt(tests, k, scan.test),
                    !.testsTime = testsTime + parseTime(l),
                    !.calls = Append(calls, [before |-> tests[k], after |-> scan.test])]
       IN  Locals(SplitSections(s, l))
    /\ pc' = "reading"
    /\ scan' = NoScan
    /\ UNCHANGED <<family, lines, ret>>

Next ==
    \/ ReadRun
    \/ ReadResult
    \/ ReadStatus
    \/ ReadOutput
    \/ ReadSummary
    \/ ReadUnrecognized
    \/ ReadDiscarded
    \/ ReadEOF
    \/ ReadError

NextBuild ==
    \/ ReadRun
    \/ ReadResult
    \/ ReadCoverage
    \/ ReadOutput
    \/ ReadBuildStart
    \/ ReadBuildCapture
    \/ ReadUnrecognized
    \/ ReadEOF
    \/ ReadError

NextPhase ==
    \/ ReadRun
    \/ ReadUnrecognized
    \/ ReadStatus
    \/ ReadEOF

Spec      == Init /\ [][Next]_vars
SpecBuild == InitBuild /\ [][NextBuild]_vars
SpecPhase == InitPhase /\ [][NextPhase]_vars
SpecClock == InitClock /\ [][NextPhase]_vars

NextScan ==
    \/ ReadRun
    \/ ReadUnrecognized
    \/ StatusBegin
    \/ ScanOne
    \/ StatusEnd
    \/ ReadEOF
    \/ ReadError

\* the program is sequential: it always takes its next step
SpecScan == InitScan /\ [][NextScan]_vars /\ WF_vars(NextScan)

NextCover ==
    \/ ReadRun
    \/ ReadResult
    \/ ReadCoverage
    \/ ReadUnrecognized
    \/ ReadEOF
    \/ ReadError

SpecCover == InitCover /\ [][NextCover]_vars

----------------------------------------------------------------------------
(* Reading the input history *)

LineAt(k) == LineOf(lines[k])

Last(s) == s[Len(s)]

KindCount(kinds) == Cardinality({k \in 1..Len(lines) : LineAt(k).kind \in kinds})

NoRunLine == KindCount({"run"}) = 0

NoResultLine == KindCount({"result"}) = 0

\* the input is N >= 1 times ("=== RUN x", "--- PASS: x (d)") and one result
\* line
PassingRunShape ==
    /\ Len(lines) >= 3
    /\ Len(lines) % 2 = 1
    /\ LineAt(Len(lines)).kind = "result"
    /\ \A k \in 1..(Len(lines) - 1) :
          IF k % 2 = 1 THEN LineAt(k).kind = "run"
          ELSE /\ LineAt(k).kind = "status"
               /\ LineAt(k).word = "PASS"
               /\ LineAt(k).name = LineAt(k - 1).name

----------------------------------------------------------------------------
(* C1  For N "=== RUN x" lines each followed by its "--- PASS: x (d)" line *)
(* and then one package-result line, the returned Report has exactly one   *)
(* Package, with exactly N Tests, each PASS with duration d.               *)

C1_OnePackageOfPassingTests ==
    (pc = "done" /\ PassingRunShape) =>
        /\ Len(ret.Packages) = 1
        /\ Len(ret.Packages[1].Tests) = (Len(lines) - 1) \div 2
        /\ \A k \in 1..Len(ret.Packages[1].Tests) :
              /\ ret.Packages[1].Tests[k].Result = PASS
              /\ ret.Packages[1].Tests[k].Time = LineAt(2 * k).num

----------------------------------------------------------------------------
(* C2  After a status line reading FAIL or SKIP has been processed for a   *)
(* test, that test's create text and destroy text are empty.               *)

\* the last line read is a FAIL / SKIP status line that resolved to a test
FailOrSkipJustRead ==
    /\ lines # <<>>
    /\ LineOf(Last(lines)).kind = "status"
    /\ LineOf(Last(lines)).word \in {"FAIL", "SKIP"}
    /\ findTest(tests, cur) # 0

C2_BuffersEmptyAfterFailOrSkip ==
    FailOrSkipJustRead =>
        /\ tests[findTest(tests, cur)].CreateText = <<>>
        /\ tests[findTest(tests, cur)].DestroyText = <<>>

----------------------------------------------------------------------------
(* C3  A FAIL package-result line read with no tests collected and a       *)
(* non-empty output buffer closes a Package with exactly one Test, named   *)
(* "Failure", outcome FAIL, whose output is the buffered lines in order.   *)

C3_FailureTestCarriesBuffer ==
    [][(/\ pc = "reading"
        /\ Len(lines') = Len(lines) + 1
        /\ LineOf(Last(lines')).kind = "result"
        /\ LineOf(Last(lines')).word = "FAIL"
        /\ tests = <<>>
        /\ buffer # <<>>)
       => /\ Len(report') = Len(report) + 1
          /\ Len(Last(report').Tests) = 1
          /\ Last(report').Tests[1].Name = "Failure"
          /\ Last(report').Tests[1].Result = FAIL
          /\ Last(report').Tests[1].Output = buffer]_vars

----------------------------------------------------------------------------
(* C4  With no "=== RUN" line in the input, every "[build failed]" result  *)
(* line closes a Package with exactly one failing Test whose output is the *)
(* lines captured under "# <pkg>" for that package, in input order.        *)

\* the package named by the last "# <pkg>" line of ls, "" if none
RECURSIVE LastBuildStart(_)
LastBuildStart(ls) ==
    IF ls = <<>> THEN ""
    ELSE IF LineOf(Last(ls)).kind = "hash" THEN LineOf(Last(ls)).name
    ELSE LastBuildStart(SubSeq(ls, 1, Len(ls) - 1))

\* the lines of ls that follow a "# pkg" marker and are no marker themselves
RECURSIVE CapturedUnder(_, _)
CapturedUnder(ls, pkg) ==
    IF ls = <<>> THEN <<>>
    ELSE LET front == SubSeq(ls, 1, Len(ls) - 1)
         IN  IF /\ LineOf(Last(ls)).kind \notin {"run", "result", "status", "coverage", "hash"}
                /\ LastBuildStart(front) = pkg
             THEN Append(CapturedUnder(front, pkg), Last(ls))
             ELSE CapturedUnder(front, pkg)

\* the position in the input of the n-th result line
RECURSIVE ResultPosition(_, _)
ResultPosition(n, from) ==
    IF LineAt(from).kind = "result"
    THEN IF n = 1 THEN from ELSE ResultPosition(n - 1, from + 1)
    ELSE ResultPosition(n, from + 1)

C4_BuildFailureCarriesCapture ==
    NoRunLine =>
        \A n \in 1..KindCount({"result"}) :
            LET at == ResultPosition(n, 1)
            IN  LineAt(at).note = "[build failed]" =>
                    /\ Len(report[n].Tests) = 1
                    /\ report[n].Tests[1].Result = FAIL
                    /\ report[n].Tests[1].Output =
                           CapturedUnder(SubSeq(lines, 1, at), LineAt(at).name)

C4_Witness ==
    /\ NoRunLine
    /\ lines # <<>>
    /\ LineOf(Last(lines)).note = "[build failed]"
    /\ pc = "reading"
    /\ Len(Last(report).Tests[1].Output) >= 2

----------------------------------------------------------------------------
(* C5  When the input ends with no package-result line read, the Report    *)
(* has exactly one Package: named by the fallback name, holding every test *)
(* started, in order, its duration the sum of the durations of the status  *)
(* lines that resolved to a test.                                          *)

\* the names of the "=== RUN" lines among the first n lines, in order
RECURSIVE StartedNames(_)
StartedNames(n) ==
    IF n = 0 THEN <<>>
    ELSE IF LineAt(n).kind = "run" THEN Append(StartedNames(n - 1), LineAt(n).name)
    ELSE StartedNames(n - 1)

\* without result lines, a status line resolves when its test was started
Resolves(k) ==
    /\ LineAt(k).kind = "status"
    /\ \E j \in 1..(k - 1) : LineAt(j).kind = "run" /\ LineAt(j).name = LineAt(k).name

RECURSIVE ResolvedTime(_)
ResolvedTime(n) ==
    IF n = 0 THEN 0
    ELSE ResolvedTime(n - 1) + (IF Resolves(n) THEN LineAt(n).num ELSE 0)

C5_FallbackPackage ==
    (pc = "done" /\ NoResultLine) =>
        /\ Len(ret.Packages) = 1
        /\ ret.Packages[1].Name = pkgName
        /\ [k \in 1..Len(ret.Packages[1].Tests) |-> ret.Packages[1].Tests[k].Name]
               = StartedNames(Len(lines))
        /\ ret.Packages[1].Time = ResolvedTime(Len(lines))

C5_Witness ==
    /\ pc = "done"
    /\ NoResultLine
    /\ Len(ret.Packages[1].Tests) = 2
    /\ ret.Packages[1].Time = 3

----------------------------------------------------------------------------
(* C6  A read error other than end-of-stream makes Parse return that error *)
(* and no Report, whatever was processed before; end-of-stream is never    *)
(* returned as an error.                                                   *)

C6_ReadErrorReturnsNoReport ==
    /\ pc = "error" => (ret.returned /\ ret.isNil /\ ret.Packages = <<>>
                        /\ ret.err = "read error")
    /\ pc = "done" => (ret.returned /\ ~ret.isNil /\ ret.err = "nil")
    /\ pc = "reading" => ~ret.returned

C6_Witness ==
    /\ pc = "error"
    /\ report # <<>>
    /\ tests # <<>>
    /\ Len(lines) >= 3

----------------------------------------------------------------------------
(* Reading a phase buffer *)

KindOf(raw) == LineOf(raw).kind

\* the lines of a buffer that one of the phase analyzer's patterns matches
Markers(text) ==
    SelectSeq(text, LAMBDA r : KindOf(r) \in {"diff", "action", "apply", "plan", "planDestroy"})

\* one diff-start marker, k >= 1 action lines, one graph-build-apply marker,
\* one graph-build-plan marker, in this order
OneBlockShape(text) ==
    LET m == Markers(text)
        n == Len(m)
    IN  /\ n >= 4
        /\ KindOf(m[1]) = "diff"
        /\ \A k \in 2..(n - 2) : KindOf(m[k]) = "action"
        /\ KindOf(m[n - 1]) = "apply"
        /\ KindOf(m[n]) = "plan"

ActionLines(text) == SelectSeq(text, LAMBDA r : KindOf(r) = "action")

\* the resource identifiers of action lines, joined by ", "
RECURSIVE JoinedIds(_)
JoinedIds(acts) ==
    IF acts = <<>> THEN ""
    ELSE IF Len(acts) = 1 THEN LineOf(acts[1]).name
    ELSE JoinedIds(SubSeq(acts, 1, Len(acts) - 1)) \o ", " \o LineOf(Last(acts)).name

\* the verbs of action lines, each once, in the order of first occurrence
RECURSIVE DistinctVerbs(_)
DistinctVerbs(acts) ==
    IF acts = <<>> THEN <<>>
    ELSE LET front == DistinctVerbs(SubSeq(acts, 1, Len(acts) - 1))
             verb  == LineOf(Last(acts)).word
         IN  IF \E k \in 1..Len(front) : front[k] = verb THEN front
             ELSE Append(front, verb)

Durations(rts) == [k \in 1..Len(rts) |-> rts[k].Duration]

----------------------------------------------------------------------------
(* C7  For a passing test whose create buffer holds one diff-start marker, *)
(* then k >= 1 action lines, then one graph-build-apply marker and one     *)
(* graph-build-plan marker, the analysis adds exactly one ResourceTime to  *)
(* the create sequence: its name the resource identifiers joined by ", "   *)
(* in input order, its actions the distinct verbs in first-occurrence      *)
(* order, its duration the plan timestamp minus the apply timestamp.       *)

C7_OneBlockOneResourceTime ==
    \A c \in 1..Len(calls) :
        LET text == calls[c].before.CreateText
            m    == Markers(text)
        IN  OneBlockShape(text) =>
                /\ Len(calls[c].after.Steps) = 1
                /\ calls[c].after.Steps =
                       Append(calls[c].before.Steps,
                              [ResourceName |-> JoinedIds(ActionLines(text)),
                               Action |-> DistinctVerbs(ActionLines(text)),
                               Duration |-> (LineOf(m[Len(m)]).num
                                             - LineOf(m[Len(m) - 1]).num) * Second])

C7_Witness ==
    /\ calls # <<>>
    /\ OneBlockShape(calls[1].before.CreateText)
    /\ Len(ActionLines(calls[1].before.CreateText)) >= 2
    /\ calls[1].after.Steps[1].Action = <<CREATE, UPDATE>>
    /\ calls[1].after.Steps[1].Duration = 2 * Second

----------------------------------------------------------------------------
(* C8  After the analysis of a passing test: create total = sum of the     *)
(* create sequence's durations; combined total = create total + sum of the *)
(* cleanup sequence's durations; overhead = reported duration in the phase *)
(* unit - combined total.  Also with create phases and no destroy phase.   *)

C8_DerivedDurations ==
    \A c \in 1..Len(calls) :
        LET t == calls[c].after
        IN  /\ t.CreateTime = SumSeq(Durations(t.Steps))
            /\ t.CreateDestroyTime = t.CreateTime + SumSeq(Durations(t.CleanUp))
            /\ t.TestOverhead = (t.Time * Second) - t.CreateDestroyTime

----------------------------------------------------------------------------
(* C9  Every phase-end marker line closes at most one ResourceTime: the    *)
(* analysis adds no more entries to the create sequence than the create    *)
(* buffer has graph-build-plan lines, and no more entries to the cleanup   *)
(* sequence than the destroy buffer has graph-build-destroy lines.         *)

PlanLines(text) == SelectSeq(text, regexIsGraphTypePlan)

DestroyLines(text) == SelectSeq(text, regexIsGraphTypeDestroy)

C9_EndMarkerClosesOnce ==
    \A c \in 1..Len(calls) :
        /\ Len(calls[c].after.Steps) - Len(calls[c].before.Steps)
               <= Len(PlanLines(calls[c].before.CreateText))
        /\ Len(calls[c].after.CleanUp) - Len(calls[c].before.CleanUp)
               <= Len(DestroyLines(calls[c].before.DestroyText))

----------------------------------------------------------------------------
(* C10  Every ResourceTime the analysis appends to the create or to the    *)
(* cleanup sequence carries only the resource names and actions of the     *)
(* action lines read since the previous append to that sequence.           *)

\* the action line the step from a reads, if it reads one
ReadsAction(a) ==
    /\ a.pc \in {"createInner", "destroyInner"}
    /\ a.i < Len(ScanText(a))
    /\ regexIsCreateUpdateOrDestroy(ScanText(a)[a.i + 1])

Appended(a, b) ==
    Len(b.test.Steps) + Len(b.test.CleanUp) > Len(a.test.Steps) + Len(a.test.CleanUp)

LastAppended(a, b) ==
    IF Len(b.test.Steps) > Len(a.test.Steps) THEN Last(b.test.Steps)
    ELSE Last(b.test.CleanUp)

\* read: the action lines read since the last append, or since the scan of
\* this buffer began
RECURSIVE CleanAppends(_, _)
CleanAppends(a, read) ==
    IF a.pc = "done" THEN TRUE
    ELSE LET b     == ScanStep(a)
             read1 == IF ReadsAction(a) THEN Append(read, ScanText(a)[a.i + 1]) ELSE read
         IN  IF Appended(a, b)
             THEN /\ LastAppended(a, b).ResourceName = JoinedIds(read1)
                  /\ LastAppended(a, b).Action = DistinctVerbs(read1)
                  /\ CleanAppends(b, <<>>)
             ELSE IF InCreate(a) /\ ~InCreate(b) THEN CleanAppends(b, <<>>)
             ELSE CleanAppends(b, read1)

C10_AppendedRecordIsClean ==
    \A c \in 1..Len(calls) : CleanAppends(AnalyzerStart(calls[c].before), <<>>)

----------------------------------------------------------------------------
(* C11  Every ResourceTime of every test of a returned Report has a        *)
(* non-negative duration, also when the end marker's timestamp is earlier  *)
(* than the start marker's.                                                *)

ResourceTimes(t) == t.Steps \o t.CleanUp

C11_DurationsNonNegative ==
    pc = "done" =>
        \A p \in 1..Len(ret.Packages) :
            \A k \in 1..Len(ret.Packages[p].Tests) :
                LET rts == ResourceTimes(ret.Packages[p].Tests[k])
                IN  \A r \in 1..Len(rts) : rts[r].Duration >= 0

----------------------------------------------------------------------------
(* C12  A package-result line that reports a build failure synthesizes a   *)
(* failing Test named after the reported reason only when no tests have    *)
(* been collected for the current package; when tests exist, the package   *)
(* is finalized with exactly the existing tests.                           *)

\* this step reads a line of the given kind
Reads(kind) ==
    /\ pc = "reading"
    /\ Len(lines') = Len(lines) + 1
    /\ LineOf(Last(lines')).kind = kind

C12_SynthesizedOnlyWithoutTests ==
    [][(Reads("result") /\ LineOf(Last(lines')).note # "")
       => /\ Len(report') = Len(report) + 1
          /\ tests = <<>> =>
                 /\ Len(Last(report').Tests) = 1
                 /\ Last(report').Tests[1].Name = LineOf(Last(lines')).note
                 /\ Last(report').Tests[1].Result = FAIL
          /\ tests # <<>> => Last(report').Tests = tests]_vars

\* as amended: the failing Test is synthesized whether or not tests have been
\* collected, and the package is finalized with the existing tests followed
\* by the synthesized one
C12_SynthesizedAfterExistingTests ==
    [][(Reads("result") /\ LineOf(Last(lines')).note # "")
       => /\ Len(report') = Len(report) + 1
          /\ Len(Last(report').Tests) = Len(tests) + 1
          /\ SubSeq(Last(report').Tests, 1, Len(tests)) = tests
          /\ Last(Last(report').Tests).Name = LineOf(Last(lines')).note
          /\ Last(Last(report').Tests).Result = FAIL
          /\ Last(Last(report').Tests).Output =
                 packageCaptures[LineOf(Last(lines')).name]]_vars

C12_Witness ==
    /\ pc = "reading"
    /\ Len(lines) >= 2
    /\ LineOf(Last(lines)).note # ""
    /\ Len(Last(report).Tests) = 2
    /\ Last(report).Tests[1].Name = "A"
    /\ Last(report).Tests[2].Name = "[build failed]"
    /\ Last(report).Tests[2].Output # <<>>

----------------------------------------------------------------------------
(* C13  Every test created by a test-start marker appears in exactly one   *)
(* Package of the returned Report: the package finalized by the first      *)
(* package-result line read after that start marker, or the fallback       *)
(* package if none follows.  Within a Package the tests are in the order   *)
(* of their start markers (a synthesized test, if any, last); Packages are *)
(* in the order of their package-result lines.                             *)

\* the names of the "=== RUN" lines at positions lo+1 .. hi, in order
RECURSIVE StartedBetween(_, _)
StartedBetween(lo, hi) ==
    IF hi <= lo THEN <<>>
    ELSE IF LineAt(hi).kind = "run"
    THEN Append(StartedBetween(lo, hi - 1), LineAt(hi).name)
    ELSE StartedBetween(lo, hi - 1)

\* the position of the n-th result line, 0 for n = 0
ResultAt(n) == IF n = 0 THEN 0 ELSE ResultPosition(n, 1)

Names(ts) == [k \in 1..Len(ts) |-> ts[k].Name]

\* names only a synthesized test has
SynthesizedNames == {"Failure"} \cup ({l.note : l \in AllLines} \ {""})

\* the names are those started, with at most one synthesized test after them
StartedThenSynthesized(names, started) ==
    \/ names = started
    \/ /\ Len(names) = Len(started) + 1
       /\ SubSeq(names, 1, Len(started)) = started
       /\ Last(names) \in SynthesizedNames

C13_TestsInTheirPackage ==
    LET nres == KindCount({"result"})
        open == StartedBetween(ResultAt(nres), Len(lines))
    IN  /\ \A n \in 1..nres :
              /\ report[n].Name = LineAt(ResultAt(n)).name
              /\ StartedThenSynthesized(Names(report[n].Tests),
                                        StartedBetween(ResultAt(n - 1), ResultAt(n)))
        /\ Names(tests) = open
        /\ pc = "reading" => Len(report) = nres
        /\ pc = "done" =>
              /\ Len(ret.Packages) = nres + 1
              /\ SubSeq(ret.Packages, 1, nres) = SubSeq(report, 1, nres)
              /\ Last(ret.Packages).Name = pkgName
              /\ Names(Last(ret.Packages).Tests) = open

C13_Witness ==
    /\ pc = "done"
    /\ Len(ret.Packages) = 2
    /\ ret.Packages[1].Name = "p"
    /\ Names(ret.Packages[1].Tests) = <<"A", "B", "[build failed]">>
    /\ Names(ret.Packages[2].Tests) = <<"B">>

----------------------------------------------------------------------------
(* C14  A status line naming <name> updates only the most recently started *)
(* test called <name> in the current package: every other test, earlier    *)
(* tests of the same name and the tests of finalized packages included, is *)
(* unchanged by that line.                                                 *)

\* the positions in the current package of the tests called name
Called(name) == {k \in 1..Len(tests) : tests[k].Name = name}

C14_StatusUpdatesLatestOnly ==
    [][Reads("status")
       => LET l == LineOf(Last(lines'))
          IN  /\ report' = report
              /\ Len(tests') = Len(tests)
              /\ \A k \in 1..Len(tests) :
                     IF k \in Called(l.name) /\ \A j \in Called(l.name) : j <= k
                     THEN /\ tests'[k].Result = l.word
                          /\ tests'[k].Time = l.num
                     ELSE tests'[k] = tests[k]]_vars

C14_Witness ==
    /\ pc = "reading"
    /\ Len(lines) = 4
    /\ LineOf(Last(lines)).kind = "status"
    /\ Len(tests) = 2
    /\ tests[1].Name = "A" /\ tests[1].Result = PASS /\ tests[1].Time = 1
    /\ tests[2].Name = "A" /\ tests[2].Result = FAIL /\ tests[2].Time = 2

----------------------------------------------------------------------------
(* C15  Every Test has an outcome in {PASS, FAIL, SKIP}.  A test created   *)
(* by a start marker is FAIL from its creation until a status line         *)
(* resolves to it, so a test with no resolving status line is reported as  *)
(* FAIL.                                                                   *)

RECURSIVE Flatten(_)
Flatten(pkgs) ==
    IF pkgs = <<>> THEN <<>>
    ELSE Flatten(SubSeq(pkgs, 1, Len(pkgs) - 1)) \o Last(pkgs).Tests

\* every test there is: those of the packages and those still open (at end
\* of input the open tests are in the fallback package)
AllTests == Flatten(report) \o (IF pc = "done" THEN <<>> ELSE tests)

\* those of them that a start marker created
StartedTests == SelectSeq(AllTests, LAMBDA t : t.Name \notin SynthesizedNames)

RunPositions ==
    SelectSeq([k \in 1..Len(lines) |-> k], LAMBDA k : LineAt(k).kind = "run")

\* the status lines that resolve to the test started at position p: they
\* name it, and neither a result line nor a start marker of the same name
\* comes between
ResolvingLines(p) ==
    {q \in (p + 1)..Len(lines) :
        /\ LineAt(q).kind = "status"
        /\ LineAt(q).name = LineAt(p).name
        /\ \A j \in (p + 1)..(q - 1) :
              /\ LineAt(j).kind # "result"
              /\ ~(LineAt(j).kind = "run" /\ LineAt(j).name = LineAt(p).name)}

Outcome(p) ==
    IF ResolvingLines(p) = {} THEN FAIL
    ELSE LineAt(CHOOSE q \in ResolvingLines(p) :
                    \A j \in ResolvingLines(p) : j <= q).word

C15_OutcomeAlwaysSet ==
    /\ \A k \in 1..Len(AllTests) : AllTests[k].Result \in {PASS, FAIL, SKIP}
    /\ Len(StartedTests) = Len(RunPositions)
    /\ \A k \in 1..Len(StartedTests) :
          StartedTests[k].Result = Outcome(RunPositions[k])

C15_Witness ==
    /\ pc = "done"
    /\ Len(ret.Packages) = 2
    /\ Len(ret.Packages[1].Tests) = 2
    /\ ret.Packages[1].Tests[1].Result = PASS
    /\ ret.Packages[1].Tests[2].Result = FAIL
    /\ ResolvingLines(2) = {}

----------------------------------------------------------------------------
(* C16  After a destroy-phase-start marker line is read, that line is      *)
(* recorded as destroy text and no later line is appended to a test's      *)
(* create text until the next test-start marker; at every test-start       *)
(* marker the phase flag is "create".  Also when the marker is read while  *)
(* the current test name resolves to no test.                              *)

\* a destroy-start marker has been read, and no test-start marker after it
MarkerSinceStart ==
    \E q \in 1..Len(lines) :
        /\ LineAt(q).kind = "destroyStart"
        /\ \A j \in (q + 1)..Len(lines) : LineAt(j).kind # "run"

C16_NoCreateTextAfterMarker ==
    [][/\ (Reads("destroyStart") /\ tests # <<>>) =>
              \E k \in 1..Len(tests) :
                  tests'[k].DestroyText = Append(tests[k].DestroyText, Last(lines'))
       /\ (pc = "reading" /\ Len(lines') = Len(lines) + 1 /\ ~Reads("run")
           /\ MarkerSinceStart) =>
              \A k \in 1..Len(tests) :
                  k <= Len(tests') =>
                      Len(tests'[k].CreateText) <= Len(tests[k].CreateText)
       /\ Reads("run") => isCreate']_vars

----------------------------------------------------------------------------
(* C17  When a status line resolves to a test, the whole output buffer is  *)
(* appended, in order, to the end of that test's output and the buffer     *)
(* becomes empty; a status line that resolves to no test of the current    *)
(* package leaves the buffer, every test and the running time total        *)
(* unchanged.                                                              *)

C17_StatusFlushesBuffer ==
    [][Reads("status")
       => LET name == LineOf(Last(lines')).name
          IN  IF Called(name) # {}
              THEN LET k == CHOOSE k \in Called(name) : \A j \in Called(name) : j <= k
                   IN  /\ tests'[k].Output = tests[k].Output \o buffer
                       /\ buffer' = <<>>
              ELSE /\ buffer' = buffer
                   /\ tests' = tests
                   /\ report' = report
                   /\ testsTime' = testsTime]_vars

C17_Witness ==
    /\ pc = "reading"
    /\ Len(lines) = 4
    /\ LineOf(Last(lines)).kind = "status"
    /\ Len(tests) = 1
    /\ tests[1].Output = <<Out1.name, Text1.raw>>
    /\ buffer = <<>>

----------------------------------------------------------------------------
(* C18  Once a summary-only line has been read, no unrecognized line is    *)
(* appended to the output buffer until the next test-start marker; a       *)
(* package-result line does not end this.  Before any summary-only line    *)
(* since the last test start, an unrecognized line read outside build      *)
(* capture is appended to the buffer.                                      *)

\* no pattern of the line loop matches the line
Unrecognized(l) ==
    l.kind \notin {"run", "result", "status", "coverage", "output", "hash", "summary"}

\* a summary-only line has been read, and no test-start marker after it
SummarySinceStart ==
    \E q \in 1..Len(lines) :
        /\ LineAt(q).kind = "summary"
        /\ \A j \in (q + 1)..Len(lines) : LineAt(j).kind # "run"

C18_NoBufferingAfterSummary ==
    [][(/\ pc = "reading"
        /\ Len(lines') = Len(lines) + 1
        /\ Unrecognized(LineOf(Last(lines'))))
       => /\ SummarySinceStart => buffer' = buffer
          /\ (~SummarySinceStart /\ capturedPackage = "") =>
                 buffer' = Append(buffer, Last(lines'))]_vars

C18_Witness ==
    /\ pc = "reading"
    /\ Len(lines) = 4
    /\ LineAt(1).kind = "text"
    /\ LineAt(2).kind = "summary"
    /\ LineAt(3).kind = "result"
    /\ LineAt(4).kind = "text"
    /\ buffer = <<>>

----------------------------------------------------------------------------
(* C20  No output text is silently lost: while no summary-only line has    *)
(* been seen since the last test start and no build capture is active,     *)
(* every line that is not a test-start, package-result, test-status,       *)
(* coverage, build-capture-start or summary-only line is stored in some    *)
(* test's output or in the output buffer, tab-prefixed output lines read   *)
(* when no current test exists included.                                   *)

\* the text of the line that a step stores: the line, or what follows the
\* tab of an output line
StoredText(l) == IF l.kind = "output" THEN {l.raw, l.name} ELSE {l.raw}

C20_NoOutputLost ==
    [][(/\ pc = "reading"
        /\ Len(lines') = Len(lines) + 1
        /\ LineOf(Last(lines')).kind
               \notin {"run", "result", "status", "coverage", "hash", "summary"}
        /\ ~SummarySinceStart
        /\ capturedPackage = "")
       => \/ /\ Len(buffer') = Len(buffer) + 1
             /\ Last(buffer') \in StoredText(LineOf(Last(lines')))
          \/ \E k \in 1..Len(tests) :
                 /\ Len(tests'[k].Output) = Len(tests[k].Output) + 1
                 /\ Last(tests'[k].Output) \in StoredText(LineOf(Last(lines')))]_vars

----------------------------------------------------------------------------
(* C19  Parse terminates on every finite input: the line loop ends at      *)
(* end-of-stream or at the first read error, and every scan of the phase   *)
(* analyzer over a create or destroy buffer terminates; the inner scan     *)
(* index only moves forward, also when it jumps to an end-marker index.    *)

InInner(a) == a.pc \in {"createInner", "destroyInner", "createFind", "destroyFind"}

\* a step of the analysis that stays inside one run of an inner loop
InnerScanStep ==
    /\ pc = "scanning"
    /\ pc' = "scanning"
    /\ InInner(scan)
    /\ InInner(scan')
    /\ InCreate(scan) = InCreate(scan')

\* the step that leaves the search for the end marker
LeavesFind ==
    /\ scan.pc \in {"createFind", "destroyFind"}
    /\ scan'.pc \in {"createInner", "destroyInner"}

C19_ParseTerminates ==
    /\ <>(pc \in {"done", "error"})
    /\ [][InnerScanStep =>
              /\ scan'.i >= scan.i
              /\ scan'.i <= Len(ScanText(scan))
              /\ LeavesFind => scan'.i > scan.i]_vars

\* Parse has returned, after an analysis whose inner index jumped over a
\* line to the end marker
C19_Witness ==
    /\ pc = "done"
    /\ calls # <<>>
    /\ Len(calls[1].before.CreateText) = 5
    /\ regexIsGraphTypeApply(calls[1].before.CreateText[3])
    /\ regexIsGraphTypePlan(calls[1].before.CreateText[5])
    /\ Len(calls[1].after.Steps) >= 1

\* the unfolded analysis returns what processCreateDestroySections returns
ScanAgrees ==
    \A c \in 1..Len(calls) :
        calls[c].after = processCreateDestroySections(calls[c].before)

----------------------------------------------------------------------------
(* C21  A finalized Package's coverage percentage is the value of the last *)
(* coverage report (coverage-only line, or coverage part of the            *)
(* package-result line) read since the previous package was finalized, and *)
(* is empty if none was read: coverage never carries over from one package *)
(* to the next.                                                            *)

\* the value of the last coverage report at positions lo+1 .. hi, "" if none
RECURSIVE LastCoverage(_, _)
LastCoverage(lo, hi) ==
    IF hi <= lo THEN ""
    ELSE IF LineAt(hi).kind \in {"coverage", "result"} /\ LineAt(hi).cov # ""
    THEN LineAt(hi).cov
    ELSE LastCoverage(lo, hi - 1)

C21_CoverageOfItsPackage ==
    LET nres == KindCount({"result"})
    IN  /\ \A n \in 1..nres :
              report[n].CoveragePct = LastCoverage(ResultAt(n - 1), ResultAt(n))
        /\ pc = "done" =>
              Last(ret.Packages).CoveragePct = LastCoverage(ResultAt(nres), Len(lines))

\* two reports before the first result line, none before the second
C21_Witness ==
    /\ pc = "done"
    /\ Len(lines) = 4
    /\ LineAt(1).kind = "coverage"
    /\ LineAt(2).kind = "coverage"
    /\ LineAt(1).cov # LineAt(2).cov
    /\ Len(ret.Packages) = 3
    /\ ret.Packages[1].CoveragePct = LineAt(2).cov
    /\ ret.Packages[2].CoveragePct = ""
    /\ ret.Packages[3].CoveragePct = ""

====
